---- MODULE Spec2Model ----
(***************************************************************************)
(* Planscape.ai: the graph-state reconciliation core of spike/app/page.tsx *)
(* (component Home), spike/lib/diff.ts, spike/components/graph-view.tsx    *)
(* and spike/components/insight-panel.tsx, as a state machine.             *)
(*                                                                         *)
(* One action is one event-loop task: a user event handler or a callback   *)
(* of the CopilotKit runtime, together with the React re-render and the    *)
(* effects that the handler's state updates trigger.                       *)
(***************************************************************************)
EXTENDS Integers, Sequences, FiniteSets, TLC

(* ------------------------------ bounds -------------------------------- *)

\* appendMessage calls (generate + check initiations) explored per behaviour
MaxCycles == 3
\* user edit events (add, delete, connect, drag, undo) explored per behaviour
MaxEdits == 2
\* tool calls of the agent explored per behaviour
MaxCalls == 2
\* edges of a snapshot given to diffGraphs (DiffSpec)
MaxDiffEdges == 2

\* drags made before the initial state of SessionSpec
SessionDrags == 28

\* flagNode calls in one scripted cycle (FlagSpec)
MaxScript == 3

(* ------------------------- program constants -------------------------- *)

\* historyRef keeps slice(-29) plus the new entry
HistoryKeep == 29
\* applyDagreLayout: position = centre - (292, 67)
HalfWidth == 292
HalfHeight == 67
\* handleAddNode: x of the last node + 220, or (100, 100)
AddOffsetX == 220
AddOrigin == 100

None == "none"

Statuses == {"ok", "warning", "error"}

(* the four values of data.nodeStyle *)
nodeStyle == "default"
nodeStyleWarning == "warning"
nodeStyleError == "error"
nodeStyleOk == "ok"

(* ------------------------------ helpers ------------------------------- *)

\* faulty variant of Last: the oldest element
Last_First(s) == s[1]

Last(s) == s[Len(s)]

Range(s) == {s[i] : i \in 1..Len(s)}

(* ------------------------- lib/diff.ts -------------------------------- *)

\* snapshotFromFlow: id + label of every node, source + target of every edge
snapshotFromFlow(ns, es) ==
    [nodes |-> [i \in 1..Len(ns) |-> [id |-> ns[i].id, label |-> ns[i].label]],
     edges |-> [i \in 1..Len(es) |-> [source |-> es[i].source, target |-> es[i].target]]]

\* new Set(xs.map(n => n.id)): membership
NodeIdSet(g) == {g.nodes[i].id : i \in 1..Len(g.nodes)}

\* iteration order of a Set: first insertion of each id
RECURSIVE SetOrder(_, _)
SetOrder(ids, seen) ==
    IF ids = <<>> THEN <<>>
    ELSE IF Head(ids) \in seen THEN SetOrder(Tail(ids), seen)
         ELSE <<Head(ids)>> \o SetOrder(Tail(ids), seen \cup {Head(ids)})

\* Object.fromEntries(nodes.map(n => [n.id, n.label]))[id]: the last entry wins;
\* undefined is modelled as None
NodeMapGet(g, id) ==
    LET hits == {i \in 1..Len(g.nodes) : g.nodes[i].id = id}
    IN  IF hits = {} THEN None
        ELSE g.nodes[CHOOSE i \in hits : \A j \in hits : j <= i].label

\* prevNodeMap[e.source] ?? e.source
LabelOrId(g, id) == IF NodeMapGet(g, id) = None THEN id ELSE NodeMapGet(g, id)

\* faulty variant of edgeKey: the key is the set of the two endpoints
edgeKey_Unordered(e) == {e.source, e.target}

\* faulty variant of edgeKey: the target is left out of the key
edgeKey_SourceOnly(e) == <<e.source, e.source>>

\* `${e.source}->${e.target}`
edgeKey(e) == <<e.source, e.target>>

\* faulty variant of EdgeKeys: the keys of all but the first edge
EdgeKeys_SkipFirst(g) == {edgeKey(g.edges[i]) : i \in 2..Len(g.edges)}

EdgeKeys(g) == {edgeKey(g.edges[i]) : i \in 1..Len(g.edges)}

\* faulty variant of NodeChanges: a node counts as present in the other
\* snapshot only if its label is the same there
RECURSIVE NodeChanges_ByLabel(_, _, _, _)
NodeChanges_ByLabel(ids, from, other, kind) ==
    IF ids = <<>> THEN <<>>
    ELSE (IF NodeMapGet(other, Head(ids)) # NodeMapGet(from, Head(ids))
          THEN <<[kind |-> kind, label |-> NodeMapGet(from, Head(ids))]>>
          ELSE <<>>) \o NodeChanges_ByLabel(Tail(ids), from, other, kind)

RECURSIVE NodeChanges(_, _, _, _)
NodeChanges(ids, from, other, kind) ==
    IF ids = <<>> THEN <<>>
    ELSE (IF Head(ids) \notin NodeIdSet(other)
          THEN <<[kind |-> kind, label |-> NodeMapGet(from, Head(ids))]>>
          ELSE <<>>) \o NodeChanges(Tail(ids), from, other, kind)

RECURSIVE EdgeChanges(_, _, _, _)
EdgeChanges(es, from, other, kind) ==
    IF es = <<>> THEN <<>>
    ELSE (IF edgeKey(Head(es)) \notin EdgeKeys(other)
          THEN <<[kind |-> kind,
                  src |-> LabelOrId(from, Head(es).source),
                  tgt |-> LabelOrId(from, Head(es).target)]>>
          ELSE <<>>) \o EdgeChanges(Tail(es), from, other, kind)

\* faulty variant of diffGraphs: added edges are not reported
diffGraphs_NoAddedEdges(prev, curr) ==
    NodeChanges(SetOrder([i \in 1..Len(prev.nodes) |-> prev.nodes[i].id], {}),
                prev, curr, "Deleted node")
    \o NodeChanges(SetOrder([i \in 1..Len(curr.nodes) |-> curr.nodes[i].id], {}),
                   curr, prev, "Added node")
    \o EdgeChanges(prev.edges, prev, curr, "Removed dependency")

\* faulty variant of diffGraphs: the added entries come before the deleted and
\* removed ones
diffGraphs_AddedFirst(prev, curr) ==
    NodeChanges(SetOrder([i \in 1..Len(curr.nodes) |-> curr.nodes[i].id], {}),
                curr, prev, "Added node")
    \o NodeChanges(SetOrder([i \in 1..Len(prev.nodes) |-> prev.nodes[i].id], {}),
                   prev, curr, "Deleted node")
    \o EdgeChanges(curr.edges, curr, prev, "Added dependency")
    \o EdgeChanges(prev.edges, prev, curr, "Removed dependency")

\* diffGraphs(prev, curr): deleted nodes, added nodes, removed edges, added edges
diffGraphs(prev, curr) ==
    NodeChanges(SetOrder([i \in 1..Len(prev.nodes) |-> prev.nodes[i].id], {}),
                prev, curr, "Deleted node")
    \o NodeChanges(SetOrder([i \in 1..Len(curr.nodes) |-> curr.nodes[i].id], {}),
                   curr, prev, "Added node")
    \o EdgeChanges(prev.edges, prev, curr, "Removed dependency")
    \o EdgeChanges(curr.edges, curr, prev, "Added dependency")

(* ------------------------- lib/graph-layout.ts ------------------------ *)

\* g.setNode(node.id, { width: 585, height: 135 })
NodeWidth == 585
NodeHeight == 135

\* dagre.layout(g): the centre point dagre gives the i-th node (rankdir TB:
\* one column here, one rank per node)
DagreCenter(i) == <<300, 100 * i>>

\* applyDagreLayout: same nodes, in order, positioned at centre - half box
applyDagreLayout(ns) ==
    [i \in 1..Len(ns) |->
        [ns[i] EXCEPT !.position = <<DagreCenter(i)[1] - HalfWidth,
                                     DagreCenter(i)[2] - HalfHeight>>]]

(* ------------------------------ inputs -------------------------------- *)

\* createGraph arguments the agent may send: unique ids, no dangling edges
RawGraphs ==
    { [nodes |-> <<[id |-> "a", label |-> "A"]>>, edges |-> <<>>],
      [nodes |-> <<[id |-> "a", label |-> "A"], [id |-> "b", label |-> "B"]>>,
       edges |-> <<[source |-> "a", target |-> "b"]>>] }

\* connection.sourceHandle / connection.targetHandle of a drawn connection
\* (custom-node.tsx gives every handle an id)
Handles == {"source-bottom/target-top"}

\* where a drag can drop a node
DragTargets == {<<0, 0>>}

\* flagNode reason strings
Reasons == {"r1", "r2", "r3"}

\* planText values: empty after trim, or a plan
PlanTexts == {"", "plan"}

(* ------------------------------- state -------------------------------- *)

VARIABLES
    nodes,               \* useState<Node[]>: <<[id, label, position, nodeStyle]>>
    edges,               \* useState<Edge[]>: <<[id, source, target]>>
    loading,             \* generate in flight
    checking,            \* check in flight
    warnings,
    suggestions,
    hasChanges,
    checkSummary,
    nodeAnnotations,     \* id -> [status, reasons]
    error,               \* null (None) or the message shown
    generateSucceededRef,
    checkSucceededRef,
    historyRef,          \* <<[nodes, edges]>>
    confirmedGraph,      \* <<>> for null, else <<snapshot>>
    checkCountRef,
    isCopilotLoading,    \* useCopilotChat().isLoading
    prevCopilotLoadingRef,
    sends,               \* appendMessage promises not yet settled
    cycle,               \* appendMessage calls issued so far
    clock,               \* Date.now() ticks used for node ids
    edits,               \* user edit events so far
    calls,               \* agent tool calls so far
    lastEvent,           \* the handler that ran last
    script,              \* FlagSpec: the flagNode calls the agent will make
    arrived,             \* FlagSpec: how many of them have arrived
    diffPrev,            \* DiffSpec: the argument prev of diffGraphs
    diffCurr,            \* DiffSpec: the argument curr of diffGraphs
    diffChanges,         \* DiffSpec: the list diffGraphs returned
    sessionId,           \* useState initializer: the stored or minted id
    toolResult           \* what the last memory tool handler gave the agent

vars == <<nodes, edges, loading, checking, warnings, suggestions, hasChanges,
          checkSummary, nodeAnnotations, error, generateSucceededRef,
          checkSucceededRef, historyRef, confirmedGraph, checkCountRef,
          isCopilotLoading, prevCopilotLoadingRef, sends, cycle, clock, edits,
          calls, lastEvent, script, arrived, diffPrev, diffCurr, diffChanges,
          sessionId, toolResult>>

\* the state the user edits and the agent's callbacks write
graphVars == <<nodes, edges, historyRef>>
insightVars == <<warnings, suggestions, checkSummary, nodeAnnotations>>
agentVars == <<isCopilotLoading, prevCopilotLoadingRef, sends, cycle>>
flagVars == <<script, arrived>>
diffVars == <<diffPrev, diffCurr, diffChanges>>

\* the id the useState initializer yields (localStorage entry or uuidv4());
\* it is opaque to every handler, so one value stands for all
uuidv4 == "session-id"

\* no memory tool has answered yet
NoResult == [raised |-> FALSE, text |-> ""]

EmptyMap == [x \in {} |-> x]

Init ==
    /\ nodes = <<>>
    /\ edges = <<>>
    /\ loading = FALSE
    /\ checking = FALSE
    /\ warnings = <<>>
    /\ suggestions = <<>>
    /\ hasChanges = FALSE
    /\ checkSummary = ""
    /\ nodeAnnotations = EmptyMap
    /\ error = None
    /\ generateSucceededRef = FALSE
    /\ checkSucceededRef = FALSE
    /\ historyRef = <<>>
    /\ confirmedGraph = <<>>
    /\ checkCountRef = 0
    /\ isCopilotLoading = FALSE
    /\ prevCopilotLoadingRef = FALSE
    /\ sends = {}
    /\ cycle = 0
    /\ clock = 0
    /\ edits = 0
    /\ calls = 0
    /\ lastEvent = "init"
    /\ script = <<>>
    /\ arrived = 0
    /\ diffPrev = snapshotFromFlow(<<>>, <<>>)
    /\ diffCurr = snapshotFromFlow(<<>>, <<>>)
    /\ diffChanges = <<>>
    /\ sessionId = uuidv4
    /\ toolResult = NoResult

(* ------------------------ page.tsx: helpers --------------------------- *)

\* faulty variant of friendlyError: no message
friendlyError_Silent(raw) == None

\* friendlyError(raw): the category of the message shown
friendlyError(raw) ==
    IF raw = "credit" THEN "credits exhausted"
    ELSE IF raw = "rate" THEN "rate limited"
    ELSE IF raw = "auth" THEN "invalid key"
    ELSE IF raw = "overloaded" THEN "overloaded"
    ELSE IF raw = "network" THEN "unreachable"
    ELSE "generic"

\* e.message of a raised send
RawErrors == {"network"}

\* faulty variant of pushHistory: the stack is never trimmed
pushHistory_NoCap(h, ns, es) == Append(h, [nodes |-> ns, edges |-> es])

\* pushHistory: keep the 29 most recent entries, append the graph as rendered
pushHistory(h, ns, es) ==
    LET keep == IF Len(h) > HistoryKeep
                THEN SubSeq(h, Len(h) - HistoryKeep + 1, Len(h)) ELSE h
    IN  Append(keep, [nodes |-> ns, edges |-> es])

\* faulty variant of HasChangesEffect: a graph without nodes is diffed too
HasChangesEffect_NoNodeGuard(conf, ns, es, hc) ==
    IF conf = <<>> THEN hc
    ELSE Len(diffGraphs(conf[1], snapshotFromFlow(ns, es))) > 0

\* the effect on [nodes, edges]: recompute hasChanges against the baseline,
\* unless there is no baseline or no node
HasChangesEffect(conf, ns, es, hc) ==
    IF conf = <<>> \/ Len(ns) = 0 THEN hc
    ELSE Len(diffGraphs(conf[1], snapshotFromFlow(ns, es))) > 0

\* statusPriority
statusPriority(s) == IF s = "error" THEN 3 ELSE IF s = "warning" THEN 2 ELSE 1

styleForStatus(s) ==
    IF s = "error" THEN nodeStyleError
    ELSE IF s = "warning" THEN nodeStyleWarning ELSE nodeStyleOk

\* faulty variant of resolvedStatus: the most recent call decides the status
resolvedStatus_LastWins(ann, nodeId, s) == s

\* flagNode: the status kept for the node after a call with status s
resolvedStatus(ann, nodeId, s) ==
    IF nodeId \in DOMAIN ann
    THEN (IF statusPriority(s) > statusPriority(ann[nodeId].status)
          THEN s ELSE ann[nodeId].status)
    ELSE s

\* faulty variant of FlagAnnotations: a reason is kept only when its call
\* raises the node's status
FlagAnnotations_DropReason(ann, nodeId, s, reason) ==
    [x \in DOMAIN ann \cup {nodeId} |->
        IF x = nodeId
        THEN [status |-> resolvedStatus(ann, nodeId, s),
              reasons |-> IF nodeId \in DOMAIN ann
                          THEN (IF statusPriority(s) > statusPriority(ann[nodeId].status)
                                THEN Append(ann[nodeId].reasons, reason)
                                ELSE ann[nodeId].reasons)
                          ELSE <<reason>>]
        ELSE ann[x]]

\* flagNode: the annotation map after the call
FlagAnnotations(ann, nodeId, s, reason) ==
    [x \in DOMAIN ann \cup {nodeId} |->
        IF x = nodeId
        THEN [status |-> resolvedStatus(ann, nodeId, s),
              reasons |-> IF nodeId \in DOMAIN ann
                          THEN Append(ann[nodeId].reasons, reason)
                          ELSE <<reason>>]
        ELSE ann[x]]

\* faulty variant of FlagNodes: every node gets the style of the call
FlagNodes_RestyleAll(ns, ann, nodeId, s) ==
    [i \in 1..Len(ns) |->
        [ns[i] EXCEPT !.nodeStyle = styleForStatus(resolvedStatus(ann, nodeId, s))]]

\* flagNode: the nodes after the call (only the flagged node is restyled)
FlagNodes(ns, ann, nodeId, s) ==
    [i \in 1..Len(ns) |->
        IF ns[i].id = nodeId
        THEN [ns[i] EXCEPT !.nodeStyle = styleForStatus(resolvedStatus(ann, nodeId, s))]
        ELSE ns[i]]

\* handleCheckChanges: every node back to the default style
ResetStyles(ns) == [i \in 1..Len(ns) |-> [ns[i] EXCEPT !.nodeStyle = nodeStyle]]

NodeIds(ns) == {ns[i].id : i \in 1..Len(ns)}

\* `node-${Date.now()}`
NewNodeId(t) == "node-" \o ToString(t)

\* ids the agent may name in flagNode: the generated ones, present or not
AgentNodeIds == {"a", "b"}

(* --------------------- page.tsx: user handlers ------------------------ *)

\* faulty variant of handleGenerate: the confirmed baseline survives
handleGenerate_KeepsBaseline(plan) ==
    /\ ~loading
    /\ plan # ""
    /\ cycle < MaxCycles
    /\ loading' = TRUE
    /\ error' = None
    /\ generateSucceededRef' = FALSE
    /\ nodes' = <<>>
    /\ edges' = <<>>
    /\ cycle' = cycle + 1
    /\ sends' = sends \cup {[kind |-> "generate", cycle |-> cycle + 1,
                             current |-> snapshotFromFlow(<<>>, <<>>)]}
    /\ lastEvent' = "generate"
    /\ UNCHANGED <<checking, warnings, suggestions, hasChanges, checkSummary,
                   nodeAnnotations, checkSucceededRef, historyRef, confirmedGraph,
                   checkCountRef, isCopilotLoading, prevCopilotLoadingRef,
                   clock, edits, calls>>
    /\ UNCHANGED <<flagVars, diffVars, sessionId, toolResult>>

\* handleGenerate (button disabled while loading); refused on empty plan text
handleGenerate(plan) ==
    /\ ~loading
    /\ IF plan = ""
       THEN /\ UNCHANGED lastEvent
            /\ UNCHANGED <<nodes, edges, loading, checking, warnings, suggestions,
                           hasChanges, checkSummary, nodeAnnotations, error,
                           generateSucceededRef, checkSucceededRef, historyRef,
                           confirmedGraph, checkCountRef, isCopilotLoading,
                           prevCopilotLoadingRef, sends, cycle, clock, edits, calls>>
       ELSE /\ cycle < MaxCycles
            /\ loading' = TRUE
            /\ error' = None
            /\ generateSucceededRef' = FALSE
            /\ nodes' = <<>>
            /\ edges' = <<>>
            /\ confirmedGraph' = <<>>
            /\ hasChanges' = HasChangesEffect(confirmedGraph', nodes', edges', hasChanges)
            /\ cycle' = cycle + 1
            /\ sends' = sends \cup {[kind |-> "generate", cycle |-> cycle + 1,
                                     current |-> snapshotFromFlow(<<>>, <<>>)]}
            /\ lastEvent' = "generate"
            /\ UNCHANGED <<checking, warnings, suggestions, checkSummary,
                           nodeAnnotations, checkSucceededRef, historyRef,
                           checkCountRef, isCopilotLoading, prevCopilotLoadingRef,
                           clock, edits, calls>>
    /\ UNCHANGED <<flagVars, diffVars, sessionId, toolResult>>

\* faulty variant of the check button: disabled = !hasChanges
CheckButtonEnabled_NoCheckingGate == hasChanges

\* the check button of InsightPanel: disabled = !hasChanges || checking
CheckButtonEnabled == hasChanges /\ ~checking

\* faulty variant of handleCheckChanges: a request with an empty diff is sent
handleCheckChanges_NoDiffGate ==
    /\ CheckButtonEnabled
    /\ confirmedGraph # <<>>
    /\ cycle < MaxCycles
    /\ checking' = TRUE
    /\ error' = None
    /\ checkSucceededRef' = FALSE
    /\ warnings' = <<>>
    /\ suggestions' = <<>>
    /\ nodeAnnotations' = EmptyMap
    /\ checkSummary' = ""
    /\ nodes' = ResetStyles(nodes)
    /\ checkCountRef' = checkCountRef + 1
    /\ hasChanges' = HasChangesEffect(confirmedGraph, nodes', edges, hasChanges)
    /\ cycle' = cycle + 1
    /\ sends' = sends \cup {[kind |-> "check", cycle |-> cycle + 1,
                             current |-> snapshotFromFlow(nodes, edges)]}
    /\ lastEvent' = "check"
    /\ UNCHANGED <<edges, loading, generateSucceededRef, historyRef,
                   confirmedGraph, isCopilotLoading, prevCopilotLoadingRef,
                   clock, edits, calls>>
    /\ UNCHANGED <<flagVars, diffVars, sessionId, toolResult>>

\* handleCheckChanges up to the await: refused without a baseline or a diff
handleCheckChanges ==
    /\ CheckButtonEnabled
    /\ LET current == snapshotFromFlow(nodes, edges)
       IN  IF confirmedGraph = <<>> \/ Len(diffGraphs(confirmedGraph[1], current)) = 0
           THEN /\ UNCHANGED lastEvent
                /\ UNCHANGED <<nodes, edges, loading, checking, warnings, suggestions,
                               hasChanges, checkSummary, nodeAnnotations, error,
                               generateSucceededRef, checkSucceededRef, historyRef,
                               confirmedGraph, checkCountRef, isCopilotLoading,
                               prevCopilotLoadingRef, sends, cycle, clock, edits, calls>>
           ELSE /\ cycle < MaxCycles
                /\ checking' = TRUE
                /\ error' = None
                /\ checkSucceededRef' = FALSE
                /\ warnings' = <<>>
                /\ suggestions' = <<>>
                /\ nodeAnnotations' = EmptyMap
                /\ checkSummary' = ""
                /\ nodes' = ResetStyles(nodes)
                /\ checkCountRef' = checkCountRef + 1
                /\ hasChanges' = HasChangesEffect(confirmedGraph, nodes', edges, hasChanges)
                /\ cycle' = cycle + 1
                /\ sends' = sends \cup {[kind |-> "check", cycle |-> cycle + 1,
                                         current |-> current]}
                /\ lastEvent' = "check"
                /\ UNCHANGED <<edges, loading, generateSucceededRef, historyRef,
                               confirmedGraph, isCopilotLoading, prevCopilotLoadingRef,
                               clock, edits, calls>>
    /\ UNCHANGED <<flagVars, diffVars, sessionId, toolResult>>

\* the part of an edit every edit shares: new nodes/edges/history, then the
\* hasChanges effect
ApplyEdit(ns, es, h, name) ==
    /\ nodes' = ns
    /\ edges' = es
    /\ historyRef' = h
    /\ hasChanges' = HasChangesEffect(confirmedGraph, ns, es, hasChanges)
    /\ lastEvent' = name
    /\ UNCHANGED <<loading, checking, warnings, suggestions, checkSummary,
                   nodeAnnotations, error, generateSucceededRef, checkSucceededRef,
                   confirmedGraph, checkCountRef, isCopilotLoading,
                   prevCopilotLoadingRef, sends, cycle, calls>>
    /\ UNCHANGED <<flagVars, diffVars, sessionId, toolResult>>

\* handleAddNode: the node appended, right of the last node
AddedNode(ns, t, label) ==
    [id |-> NewNodeId(t), label |-> label,
     position |-> IF Len(ns) > 0
                  THEN <<Last(ns).position[1] + AddOffsetX, Last(ns).position[2]>>
                  ELSE <<AddOrigin, AddOrigin>>,
     nodeStyle |-> nodeStyle]

\* handleAddNode ("+ Add Step" is disabled while there is no node)
handleAddNode(label) ==
    /\ Len(nodes) > 0
    /\ edits < MaxEdits
    /\ ApplyEdit(Append(nodes, AddedNode(nodes, clock + 1, label)), edges,
                 pushHistory(historyRef, nodes, edges), "addNode")
    /\ clock' = clock + 1
    /\ edits' = edits + 1

\* faulty variant of handleDeleteNode: the edges of the node are kept
handleDeleteNode_KeepEdges(nodeId) ==
    /\ nodeId \in NodeIds(nodes)
    /\ edits < MaxEdits
    /\ ApplyEdit(SelectSeq(nodes, LAMBDA n : n.id # nodeId), edges,
                 pushHistory(historyRef, nodes, edges), "deleteNode")
    /\ edits' = edits + 1
    /\ UNCHANGED clock

\* handleDeleteNode (the trash button of a node)
handleDeleteNode(nodeId) ==
    /\ nodeId \in NodeIds(nodes)
    /\ edits < MaxEdits
    /\ ApplyEdit(SelectSeq(nodes, LAMBDA n : n.id # nodeId),
                 SelectSeq(edges, LAMBDA e : e.source # nodeId /\ e.target # nodeId),
                 pushHistory(historyRef, nodes, edges), "deleteNode")
    /\ edits' = edits + 1
    /\ UNCHANGED clock

\* handleDeleteEdge (the trash button of an edge)
handleDeleteEdge(edgeId) ==
    /\ Len(nodes) > 0
    /\ \E i \in 1..Len(edges) : edges[i].id = edgeId
    /\ edits < MaxEdits
    /\ ApplyEdit(nodes, SelectSeq(edges, LAMBDA e : e.id # edgeId),
                 pushHistory(historyRef, nodes, edges), "deleteEdge")
    /\ edits' = edits + 1
    /\ UNCHANGED clock

\* addEdge of reactflow: connectionExists(edge, edges)
connectionExists(es, s, t, h) ==
    \E i \in 1..Len(es) :
        es[i].source = s /\ es[i].target = t /\ es[i].handles = h

\* handleConnect: history push, then addEdge; an existing connection (same
\* endpoints, same handles) leaves the edges array as it is
handleConnect(s, t, h) ==
    /\ {s, t} \subseteq NodeIds(nodes)
    /\ s # t
    /\ edits < MaxEdits
    /\ IF connectionExists(edges, s, t, h)
       THEN /\ historyRef' = pushHistory(historyRef, nodes, edges)
            /\ lastEvent' = "connectExisting"
            /\ UNCHANGED <<nodes, edges, hasChanges, loading, checking, warnings,
                           suggestions, checkSummary, nodeAnnotations, error,
                           generateSucceededRef, checkSucceededRef, confirmedGraph,
                           checkCountRef, isCopilotLoading, prevCopilotLoadingRef,
                           sends, cycle, calls>>
            /\ UNCHANGED <<flagVars, diffVars, sessionId, toolResult>>
       ELSE ApplyEdit(nodes,
                      Append(edges, [id |-> <<s, t, h>>, source |-> s, target |-> t,
                                     handles |-> h]),
                      pushHistory(historyRef, nodes, edges), "connect")
    /\ edits' = edits + 1
    /\ UNCHANGED clock

\* onNodeDragStart (history push) and handleNodesChange with the position
\* changes of the drag
handleNodeDrag(nodeId, pos) ==
    /\ nodeId \in NodeIds(nodes)
    /\ edits < MaxEdits
    /\ ApplyEdit([i \in 1..Len(nodes) |->
                     IF nodes[i].id = nodeId
                     THEN [nodes[i] EXCEPT !.position = pos] ELSE nodes[i]],
                 edges, pushHistory(historyRef, nodes, edges), "drag")
    /\ edits' = edits + 1
    /\ UNCHANGED clock

\* deleteKeyCode="Backspace" on a selected node: handleNodesChange and
\* handleEdgesChange with remove changes (no history push)
handleNodesChangeRemove(nodeId) ==
    /\ nodeId \in NodeIds(nodes)
    /\ edits < MaxEdits
    /\ ApplyEdit(SelectSeq(nodes, LAMBDA n : n.id # nodeId),
                 SelectSeq(edges, LAMBDA e : e.source # nodeId /\ e.target # nodeId),
                 historyRef, "keyDeleteNode")
    /\ edits' = edits + 1
    /\ UNCHANGED clock

\* deleteKeyCode="Backspace" on a selected edge: handleEdgesChange
handleEdgesChangeRemove(edgeId) ==
    /\ Len(nodes) > 0
    /\ \E i \in 1..Len(edges) : edges[i].id = edgeId
    /\ edits < MaxEdits
    /\ ApplyEdit(nodes, SelectSeq(edges, LAMBDA e : e.id # edgeId),
                 historyRef, "keyDeleteEdge")
    /\ edits' = edits + 1
    /\ UNCHANGED clock

\* faulty variant of handleUndo: the annotation map is cleared as well
handleUndo_ResetsAnnotations ==
    /\ Len(historyRef) > 0
    /\ nodes' = Last(historyRef).nodes
    /\ edges' = Last(historyRef).edges
    /\ historyRef' = SubSeq(historyRef, 1, Len(historyRef) - 1)
    /\ hasChanges' = HasChangesEffect(confirmedGraph, nodes', edges', hasChanges)
    /\ nodeAnnotations' = EmptyMap
    /\ lastEvent' = "undo"
    /\ UNCHANGED <<loading, checking, warnings, suggestions, checkSummary, error,
                   generateSucceededRef, checkSucceededRef, confirmedGraph,
                   checkCountRef, isCopilotLoading, prevCopilotLoadingRef, sends,
                   cycle, clock, edits, calls>>
    /\ UNCHANGED <<flagVars, diffVars, sessionId, toolResult>>

\* handleUndo (button or Ctrl/Cmd+Z): no-op on an empty history
handleUndo ==
    /\ IF Len(historyRef) = 0
       THEN /\ UNCHANGED lastEvent
            /\ UNCHANGED <<nodes, edges, historyRef, hasChanges, loading, checking,
                           warnings, suggestions, checkSummary, nodeAnnotations, error,
                           generateSucceededRef, checkSucceededRef, confirmedGraph,
                           checkCountRef, isCopilotLoading, prevCopilotLoadingRef,
                           sends, cycle, calls>>
            /\ UNCHANGED <<flagVars, diffVars, sessionId, toolResult>>
       ELSE ApplyEdit(Last(historyRef).nodes, Last(historyRef).edges,
                      SubSeq(historyRef, 1, Len(historyRef) - 1), "undo")
    /\ UNCHANGED <<clock, edits>>

(* ------------- page.tsx: the continuations of appendMessage ----------- *)

\* the agent run of a pending send has started: isLoading false -> true; the
\* completion-detection effect records it in prevCopilotLoadingRef
copilotBusy ==
    /\ sends # {}
    /\ ~isCopilotLoading
    /\ isCopilotLoading' = TRUE
    /\ prevCopilotLoadingRef' = TRUE
    /\ lastEvent' = "busy"
    /\ UNCHANGED <<nodes, edges, loading, checking, warnings, suggestions,
                   hasChanges, checkSummary, nodeAnnotations, error,
                   generateSucceededRef, checkSucceededRef, historyRef,
                   confirmedGraph, checkCountRef, sends, cycle, clock, edits, calls>>
    /\ UNCHANGED <<flagVars, diffVars, sessionId, toolResult>>

\* faulty variant of CheckBaseline: the snapshot is taken when the send returns
CheckBaseline_AtCompletion(s, ns, es) == snapshotFromFlow(ns, es)

\* faulty variant of CheckBaseline: the baseline is not advanced
CheckBaseline_KeepOld(s, ns, es) ==
    IF confirmedGraph = <<>> THEN s.current ELSE confirmedGraph[1]

\* faulty variant of CheckBaseline: the baseline is advanced only when
\* summarizeCheck was called
CheckBaseline_OnlyWithSummary(s, ns, es) ==
    IF checkSucceededRef \/ confirmedGraph = <<>> THEN s.current ELSE confirmedGraph[1]

\* handleCheckChanges after the await: the baseline written on a send that
\* returned
CheckBaseline(s, ns, es) == s.current

\* await appendMessage(...) returns: handleGenerate has nothing left to do,
\* handleCheckChanges writes the baseline and clears hasChanges
sendResolved(s) ==
    /\ s \in sends
    /\ isCopilotLoading
    /\ sends' = sends \ {s}
    /\ IF s.kind = "check"
       THEN /\ confirmedGraph' = <<CheckBaseline(s, nodes, edges)>>
            /\ hasChanges' = FALSE
            /\ lastEvent' = "checkResolved"
       ELSE /\ UNCHANGED <<confirmedGraph, hasChanges>>
            /\ lastEvent' = "generateResolved"
    /\ UNCHANGED <<nodes, edges, loading, checking, warnings, suggestions,
                   checkSummary, nodeAnnotations, error, generateSucceededRef,
                   checkSucceededRef, historyRef, checkCountRef, isCopilotLoading,
                   prevCopilotLoadingRef, cycle, clock, edits, calls>>
    /\ UNCHANGED <<flagVars, diffVars, sessionId, toolResult>>

\* faulty variant of sendRaised: a check that raised is not counted
sendRaised_UncountsCheck(s, raw) ==
    /\ s \in sends
    /\ sends' = sends \ {s}
    /\ error' = friendlyError(raw)
    /\ IF s.kind = "check"
       THEN /\ checking' = FALSE
            /\ checkCountRef' = checkCountRef - 1
            /\ lastEvent' = "checkRaised"
            /\ UNCHANGED loading
       ELSE /\ loading' = FALSE
            /\ lastEvent' = "generateRaised"
            /\ UNCHANGED <<checking, checkCountRef>>
    /\ UNCHANGED <<nodes, edges, warnings, suggestions, hasChanges, checkSummary,
                   nodeAnnotations, generateSucceededRef, checkSucceededRef,
                   historyRef, confirmedGraph, isCopilotLoading,
                   prevCopilotLoadingRef, cycle, clock, edits, calls>>
    /\ UNCHANGED <<flagVars, diffVars, sessionId, toolResult>>

\* await appendMessage(...) raises: the catch block of the handler
sendRaised(s, raw) ==
    /\ s \in sends
    /\ sends' = sends \ {s}
    /\ error' = friendlyError(raw)
    /\ IF s.kind = "check"
       THEN /\ checking' = FALSE
            /\ lastEvent' = "checkRaised"
            /\ UNCHANGED loading
       ELSE /\ loading' = FALSE
            /\ lastEvent' = "generateRaised"
            /\ UNCHANGED checking
    /\ UNCHANGED <<nodes, edges, warnings, suggestions, hasChanges, checkSummary,
                   nodeAnnotations, generateSucceededRef, checkSucceededRef,
                   historyRef, confirmedGraph, checkCountRef, isCopilotLoading,
                   prevCopilotLoadingRef, cycle, clock, edits, calls>>
    /\ UNCHANGED <<flagVars, diffVars, sessionId, toolResult>>

\* faulty variant of the completion-detection effect: the check branch is
\* missing, only a generate is ended by the indicator
copilotIdle_KeepsChecking ==
    /\ isCopilotLoading
    /\ sends = {}
    /\ isCopilotLoading' = FALSE
    /\ prevCopilotLoadingRef' = FALSE
    /\ loading' = (IF loading /\ prevCopilotLoadingRef THEN FALSE ELSE loading)
    /\ error' = (IF prevCopilotLoadingRef /\ loading /\ ~generateSucceededRef
                 THEN friendlyError("") ELSE error)
    /\ lastEvent' = "idle"
    /\ UNCHANGED <<nodes, edges, checking, warnings, suggestions, hasChanges,
                   checkSummary, nodeAnnotations, generateSucceededRef,
                   checkSucceededRef, historyRef, confirmedGraph, checkCountRef,
                   sends, cycle, clock, edits, calls>>
    /\ UNCHANGED <<flagVars, diffVars, sessionId, toolResult>>

\* the completion-detection effect on isLoading true -> false, once every
\* pending appendMessage has settled
copilotIdle ==
    /\ isCopilotLoading
    /\ sends = {}
    /\ isCopilotLoading' = FALSE
    /\ prevCopilotLoadingRef' = FALSE
    /\ checking' = (IF checking /\ prevCopilotLoadingRef THEN FALSE ELSE checking)
    /\ loading' = (IF loading /\ prevCopilotLoadingRef THEN FALSE ELSE loading)
    /\ error' = (IF prevCopilotLoadingRef
                    /\ ((checking /\ ~checkSucceededRef) \/ (loading /\ ~generateSucceededRef))
                 THEN friendlyError("") ELSE error)
    /\ lastEvent' = "idle"
    /\ UNCHANGED <<nodes, edges, warnings, suggestions, hasChanges, checkSummary,
                   nodeAnnotations, generateSucceededRef, checkSucceededRef,
                   historyRef, confirmedGraph, checkCountRef, sends, cycle, clock,
                   edits, calls>>
    /\ UNCHANGED <<flagVars, diffVars, sessionId, toolResult>>

(* ---------------- page.tsx: the agent's tool handlers ----------------- *)

\* createGraph handler: rawNodes.map(...) before layout
FlowNodes(raw) ==
    [i \in 1..Len(raw.nodes) |->
        [id |-> raw.nodes[i].id, label |-> raw.nodes[i].label,
         position |-> <<0, 0>>, nodeStyle |-> nodeStyle]]

\* createGraph handler: rawEdges.map(...), id `${source}-${target}`, no handles
FlowEdges(raw) ==
    [i \in 1..Len(raw.edges) |->
        [id |-> <<raw.edges[i].source, raw.edges[i].target, "">>,
         source |-> raw.edges[i].source, target |-> raw.edges[i].target,
         handles |-> ""]]

\* faulty variant of createGraph: the graph replaced is not pushed on the
\* history
createGraph_NoHistory(raw) ==
    /\ isCopilotLoading
    /\ loading
    /\ ~generateSucceededRef
    /\ calls < MaxCalls
    /\ LET laid == applyDagreLayout(FlowNodes(raw))
       IN  /\ nodes' = laid
           /\ edges' = FlowEdges(raw)
           /\ confirmedGraph' = <<snapshotFromFlow(laid, FlowEdges(raw))>>
           /\ hasChanges' = HasChangesEffect(confirmedGraph', laid, FlowEdges(raw), FALSE)
    /\ warnings' = <<>>
    /\ suggestions' = <<>>
    /\ generateSucceededRef' = TRUE
    /\ calls' = calls + 1
    /\ lastEvent' = "createGraph"
    /\ UNCHANGED <<loading, checking, checkSummary, nodeAnnotations, error,
                   checkSucceededRef, checkCountRef, isCopilotLoading,
                   prevCopilotLoadingRef, sends, cycle, clock, edits, historyRef>>
    /\ UNCHANGED <<flagVars, diffVars, sessionId, toolResult>>

\* createGraph handler; the agent calls it once for a plan, while the generate
\* is outstanding
createGraph(raw) ==
    /\ isCopilotLoading
    /\ loading
    /\ ~generateSucceededRef
    /\ calls < MaxCalls
    /\ LET laid == applyDagreLayout(FlowNodes(raw))
       IN  /\ historyRef' = pushHistory(historyRef, nodes, edges)
           /\ nodes' = laid
           /\ edges' = FlowEdges(raw)
           /\ confirmedGraph' = <<snapshotFromFlow(laid, FlowEdges(raw))>>
           /\ hasChanges' = HasChangesEffect(confirmedGraph', laid, FlowEdges(raw), FALSE)
    /\ warnings' = <<>>
    /\ suggestions' = <<>>
    /\ generateSucceededRef' = TRUE
    /\ calls' = calls + 1
    /\ lastEvent' = "createGraph"
    /\ UNCHANGED <<loading, checking, checkSummary, nodeAnnotations, error,
                   checkSucceededRef, checkCountRef, isCopilotLoading,
                   prevCopilotLoadingRef, sends, cycle, clock, edits>>
    /\ UNCHANGED <<flagVars, diffVars, sessionId, toolResult>>

\* the state change of the flagNode handler
FlagUpdate(nodeId, status, reason) ==
    /\ nodeAnnotations' = FlagAnnotations(nodeAnnotations, nodeId, status, reason)
    /\ nodes' = FlagNodes(nodes, nodeAnnotations, nodeId, status)
    /\ hasChanges' = HasChangesEffect(confirmedGraph, nodes', edges, hasChanges)
    /\ UNCHANGED <<edges, loading, checking, warnings, suggestions, checkSummary,
                   error, generateSucceededRef, checkSucceededRef, historyRef,
                   confirmedGraph, checkCountRef, isCopilotLoading,
                   prevCopilotLoadingRef, sends, cycle, clock, edits>>

\* flagNode handler; the agent calls it while a check is outstanding
flagNode(nodeId, status, reason) ==
    /\ isCopilotLoading
    /\ checking
    /\ calls < MaxCalls
    /\ FlagUpdate(nodeId, status, reason)
    /\ calls' = calls + 1
    /\ lastEvent' = "flagNode"
    /\ UNCHANGED <<flagVars, diffVars, sessionId, toolResult>>

\* addInsight handler
addInsight(type, message) ==
    /\ isCopilotLoading
    /\ checking
    /\ calls < MaxCalls
    /\ IF type = "warning"
       THEN warnings' = Append(warnings, message) /\ UNCHANGED suggestions
       ELSE suggestions' = Append(suggestions, message) /\ UNCHANGED warnings
    /\ calls' = calls + 1
    /\ lastEvent' = "addInsight"
    /\ UNCHANGED <<nodes, edges, loading, checking, hasChanges, checkSummary,
                   nodeAnnotations, error, generateSucceededRef, checkSucceededRef,
                   historyRef, confirmedGraph, checkCountRef, isCopilotLoading,
                   prevCopilotLoadingRef, sends, cycle, clock, edits>>
    /\ UNCHANGED <<flagVars, diffVars, sessionId, toolResult>>

\* faulty variant of summarizeCheck: the handler confirms the live graph
summarizeCheck_WritesBaseline(summary) ==
    /\ isCopilotLoading
    /\ checking
    /\ calls < MaxCalls
    /\ checkSummary' = summary
    /\ checkSucceededRef' = TRUE
    /\ confirmedGraph' = <<snapshotFromFlow(nodes, edges)>>
    /\ calls' = calls + 1
    /\ lastEvent' = "summarizeCheck"
    /\ UNCHANGED <<nodes, edges, loading, checking, warnings, suggestions,
                   hasChanges, nodeAnnotations, error, generateSucceededRef,
                   historyRef, checkCountRef, isCopilotLoading,
                   prevCopilotLoadingRef, sends, cycle, clock, edits>>
    /\ UNCHANGED <<flagVars, diffVars, sessionId, toolResult>>

\* summarizeCheck handler: the summary and the success marker
summarizeCheck(summary) ==
    /\ isCopilotLoading
    /\ checking
    /\ calls < MaxCalls
    /\ checkSummary' = summary
    /\ checkSucceededRef' = TRUE
    /\ calls' = calls + 1
    /\ lastEvent' = "summarizeCheck"
    /\ UNCHANGED <<nodes, edges, loading, checking, warnings, suggestions,
                   hasChanges, nodeAnnotations, error, generateSucceededRef,
                   historyRef, confirmedGraph, checkCountRef, isCopilotLoading,
                   prevCopilotLoadingRef, sends, cycle, clock, edits>>
    /\ UNCHANGED <<flagVars, diffVars, sessionId, toolResult>>

\* an outstanding appendMessage settles: it returns or it raises
sendSettles ==
    \E s \in sends : sendResolved(s) \/ \E raw \in RawErrors : sendRaised(s, raw)

(* --------------- page.tsx / api/memory: the memory tools --------------- *)

\* what can happen to fetch("/api/memory"): the service answers, the MCP call
\* throws inside the route, the route is unreachable (fetch rejects), or the
\* response body is not JSON (res.json() rejects)
MemoryOutcomes == {"ok", "serviceError", "unreachable", "badBody"}

\* route.ts POST: { ok: true, result } or, from its catch block,
\* { ok: false, error: message } with status 500
POST(action, outcome, stored) ==
    IF action \notin {"store", "search"}
    THEN [ok |-> FALSE, error |-> "Unknown action"]
    ELSE IF outcome = "ok" THEN [ok |-> TRUE, result |-> stored]
    ELSE [ok |-> FALSE, error |-> "connect ECONNREFUSED"]

\* faulty variant of storeMemoryResult: no try/catch around the fetch
storeMemoryResult_NoCatch(text, outcome) ==
    IF outcome \in {"unreachable", "badBody"}
    THEN [raised |-> TRUE, text |-> ""]
    ELSE LET data == POST("store", outcome, "ok")
         IN  [raised |-> FALSE,
              text |-> IF data.ok THEN "Memory stored: " \o text
                       ELSE "Failed to store: " \o data.error]

\* storeMemory handler: the string it returns
storeMemoryResult(text, outcome) ==
    IF outcome \in {"unreachable", "badBody"}
    THEN [raised |-> FALSE, text |-> "Failed to store memory: " \o outcome]
    ELSE LET data == POST("store", outcome, "ok")
         IN  [raised |-> FALSE,
              text |-> IF data.ok THEN "Memory stored: " \o text
                       ELSE "Failed to store: " \o data.error]

\* searchMemory handler: the string it returns
searchMemoryResult(query, outcome) ==
    IF outcome \in {"unreachable", "badBody"}
    THEN [raised |-> FALSE, text |-> "Search failed: " \o outcome]
    ELSE LET data == POST("search", outcome, "No memories found.")
         IN  [raised |-> FALSE,
              text |-> IF data.ok THEN data.result
                       ELSE "Search failed: " \o data.error]

\* a memory tool call of the agent during a check: the handler writes no
\* state of the page, the agent gets its return value
MemoryCall(result, name) ==
    /\ isCopilotLoading
    /\ checking
    /\ calls < MaxCalls
    /\ toolResult' = result
    /\ calls' = calls + 1
    /\ lastEvent' = name
    /\ UNCHANGED <<nodes, edges, loading, checking, warnings, suggestions,
                   hasChanges, checkSummary, nodeAnnotations, error,
                   generateSucceededRef, checkSucceededRef, historyRef,
                   confirmedGraph, checkCountRef, isCopilotLoading,
                   prevCopilotLoadingRef, sends, cycle, clock, edits>>
    /\ UNCHANGED <<flagVars, diffVars, sessionId>>

storeMemory(text, outcome) ==
    MemoryCall(storeMemoryResult(text, outcome), "storeMemory")

searchMemory(query, outcome) ==
    MemoryCall(searchMemoryResult(query, outcome), "searchMemory")

(* --------------------------- specification ---------------------------- *)

Next ==
    \/ \E plan \in PlanTexts : handleGenerate(plan)
    \/ handleCheckChanges
    \/ handleAddNode("N")
    \/ \E n \in NodeIds(nodes) : handleDeleteNode(n)
    \/ \E e \in Range(edges) : handleDeleteEdge(e.id)
    \/ \E s \in NodeIds(nodes), t \in NodeIds(nodes), h \in Handles : handleConnect(s, t, h)
    \/ \E n \in NodeIds(nodes), pos \in DragTargets : handleNodeDrag(n, pos)
    \/ \E n \in NodeIds(nodes) : handleNodesChangeRemove(n)
    \/ \E e \in Range(edges) : handleEdgesChangeRemove(e.id)
    \/ handleUndo
    \/ copilotBusy
    \/ \E s \in sends : sendResolved(s)
    \/ \E s \in sends, raw \in RawErrors : sendRaised(s, raw)
    \/ copilotIdle
    \/ \E raw \in RawGraphs : createGraph(raw)
    \/ \E st \in Statuses : flagNode("a", st, "r1")
    \/ \E type \in {"warning", "suggestion"} : addInsight(type, "m")
    \/ summarizeCheck("s")

Spec == Init /\ [][Next]_vars

(* ------------- FlagSpec: one check cycle of scripted flagNode calls --- *)

\* the flagNode calls the agent may make in the cycle
FlagCalls == [nodeId : AgentNodeIds, status : Statuses, reason : Reasons]

RECURSIVE SeqsUpTo(_, _)
SeqsUpTo(S, n) ==
    IF n = 0 THEN {<<>>}
    ELSE SeqsUpTo(S, n - 1)
         \cup {Append(q, x) : q \in {r \in SeqsUpTo(S, n - 1) : Len(r) = n - 1}, x \in S}

\* the state in which the agent starts to answer a check: a graph was
\* generated, the user added a node and pressed the check button
FlagInit ==
    /\ \E raw \in RawGraphs :
          LET laid == applyDagreLayout(FlowNodes(raw))
          IN  /\ nodes = Append(laid, AddedNode(laid, 1, "N"))
              /\ edges = FlowEdges(raw)
              /\ confirmedGraph = <<snapshotFromFlow(laid, FlowEdges(raw))>>
              /\ historyRef = <<[nodes |-> <<>>, edges |-> <<>>],
                                [nodes |-> laid, edges |-> FlowEdges(raw)]>>
              /\ sends = {[kind |-> "check", cycle |-> 2,
                           current |-> snapshotFromFlow(Append(laid, AddedNode(laid, 1, "N")),
                                                        FlowEdges(raw))]}
    /\ loading = FALSE
    /\ checking = TRUE
    /\ warnings = <<>>
    /\ suggestions = <<>>
    /\ hasChanges = TRUE
    /\ checkSummary = ""
    /\ nodeAnnotations = EmptyMap
    /\ error = None
    /\ generateSucceededRef = TRUE
    /\ checkSucceededRef = FALSE
    /\ checkCountRef = 1
    /\ isCopilotLoading = TRUE
    /\ prevCopilotLoadingRef = TRUE
    /\ cycle = 2
    /\ clock = 1
    /\ edits = 1
    /\ calls = 1
    /\ lastEvent = "busy"
    /\ script \in SeqsUpTo(FlagCalls, MaxScript)
    /\ arrived = 0
    /\ diffPrev = snapshotFromFlow(<<>>, <<>>)
    /\ diffCurr = snapshotFromFlow(<<>>, <<>>)
    /\ diffChanges = <<>>
    /\ sessionId = uuidv4
    /\ toolResult = NoResult

\* the next scripted call arrives: the flagNode handler runs
scriptedFlagNode ==
    /\ arrived < Len(script)
    /\ FlagUpdate(script[arrived + 1].nodeId, script[arrived + 1].status,
                  script[arrived + 1].reason)
    /\ arrived' = arrived + 1
    /\ lastEvent' = "flagNode"
    /\ UNCHANGED <<calls, script>>
    /\ UNCHANGED <<diffVars, sessionId, toolResult>>

FlagNext == scriptedFlagNode

FlagSpec == FlagInit /\ [][FlagNext]_vars

(* ------ SessionSpec: the handlers late in a session of the user ------- *)

\* the generated graph of the session: the single step a, laid out
SessionLaid == applyDagreLayout(FlowNodes([nodes |-> <<[id |-> "a", label |-> "A"]>>,
                                          edges |-> <<>>]))

\* the nodes after the k-th drag of step a (each drag ends at another place)
SessionNodesAt(k) ==
    IF k = 0 THEN SessionLaid
    ELSE [i \in 1..Len(SessionLaid) |-> [SessionLaid[i] EXCEPT !.position = <<k, 0>>]]

\* the history after createGraph and k drags (onNodeDragStart pushes)
RECURSIVE SessionHistory(_)
SessionHistory(k) ==
    IF k = 0 THEN pushHistory(<<>>, <<>>, <<>>)
    ELSE pushHistory(SessionHistory(k - 1), SessionNodesAt(k - 1), <<>>)

\* the state late in a session: a graph was generated, its step dragged
\* SessionDrags times, a step added, and a check completed in which the agent
\* flagged step a, added a warning and summarized (two appendMessage calls
\* so far); the edits and tool calls explored are counted from this state
SessionInit ==
    /\ LET dragged == SessionNodesAt(SessionDrags)
           added == Append(dragged, AddedNode(dragged, 1, "N"))
       IN  /\ nodes = FlagNodes(added, EmptyMap, "a", "warning")
           /\ historyRef = pushHistory(SessionHistory(SessionDrags), dragged, <<>>)
           /\ confirmedGraph = <<snapshotFromFlow(added, <<>>)>>
    /\ edges = <<>>
    /\ loading = FALSE
    /\ checking = FALSE
    /\ warnings = <<"m">>
    /\ suggestions = <<>>
    /\ hasChanges = FALSE
    /\ checkSummary = "s"
    /\ nodeAnnotations = FlagAnnotations(EmptyMap, "a", "warning", "r1")
    /\ error = None
    /\ generateSucceededRef = TRUE
    /\ checkSucceededRef = TRUE
    /\ checkCountRef = 1
    /\ isCopilotLoading = FALSE
    /\ prevCopilotLoadingRef = FALSE
    /\ sends = {}
    /\ cycle = 2
    /\ clock = 1
    /\ edits = 0
    /\ calls = 0
    /\ lastEvent = "idle"
    /\ script = <<>>
    /\ arrived = 0
    /\ diffPrev = snapshotFromFlow(<<>>, <<>>)
    /\ diffCurr = snapshotFromFlow(<<>>, <<>>)
    /\ diffChanges = <<>>
    /\ sessionId = uuidv4
    /\ toolResult = NoResult

\* the handlers that write the history, and a regeneration of the graph
SessionNext ==
    \/ \E plan \in PlanTexts : handleGenerate(plan)
    \/ copilotBusy
    \/ \E s \in sends : sendResolved(s)
    \/ copilotIdle
    \/ \E raw \in RawGraphs : createGraph(raw)
    \/ handleAddNode("N")
    \/ \E n \in NodeIds(nodes) : handleDeleteNode(n)
    \/ \E s \in NodeIds(nodes), t \in NodeIds(nodes), h \in Handles : handleConnect(s, t, h)
    \/ \E n \in NodeIds(nodes), pos \in DragTargets : handleNodeDrag(n, pos)
    \/ handleUndo

SessionSpec == SessionInit /\ [][SessionNext]_vars

(* ---------------- DiffSpec: diffGraphs on two snapshots --------------- *)

\* node ids and labels of the snapshots
DiffIds == {"a", "b"}
DiffLabels == {"A", "B"}

\* node lists with unique ids: none, one or both of the ids, in either order
DiffNodeLists ==
    {<<>>}
    \cup {<<[id |-> i, label |-> l]>> : i \in DiffIds, l \in DiffLabels}
    \cup {q \in {<<[id |-> i, label |-> l], [id |-> j, label |-> m]>> :
                      i \in DiffIds, j \in DiffIds, l \in DiffLabels, m \in DiffLabels} :
             q[1].id # q[2].id}

\* edge lists: any endpoints among the ids (present in the node list or not),
\* repeated edges included
DiffEdgeLists == SeqsUpTo([source : DiffIds, target : DiffIds], MaxDiffEdges)

Snapshots == [nodes : DiffNodeLists, edges : DiffEdgeLists]

\* a plan of two steps with one dependency, and the same plan with a third
\* step depending on the second
ExamplePrev ==
    [nodes |-> <<[id |-> "a", label |-> "A"], [id |-> "b", label |-> "B"]>>,
     edges |-> <<[source |-> "a", target |-> "b"]>>]
ExampleCurr ==
    [nodes |-> <<[id |-> "a", label |-> "A"], [id |-> "b", label |-> "B"],
                 [id |-> "c", label |-> "C"]>>,
     edges |-> <<[source |-> "a", target |-> "b"], [source |-> "b", target |-> "c"]>>]

DiffInit ==
    /\ nodes = <<>>
    /\ edges = <<>>
    /\ loading = FALSE
    /\ checking = FALSE
    /\ warnings = <<>>
    /\ suggestions = <<>>
    /\ hasChanges = FALSE
    /\ checkSummary = ""
    /\ nodeAnnotations = EmptyMap
    /\ error = None
    /\ generateSucceededRef = FALSE
    /\ checkSucceededRef = FALSE
    /\ historyRef = <<>>
    /\ confirmedGraph = <<>>
    /\ checkCountRef = 0
    /\ isCopilotLoading = FALSE
    /\ prevCopilotLoadingRef = FALSE
    /\ sends = {}
    /\ cycle = 0
    /\ clock = 0
    /\ edits = 0
    /\ calls = 0
    /\ lastEvent = "init"
    /\ script = <<>>
    /\ arrived = 0
    /\ \/ diffPrev \in Snapshots /\ diffCurr \in Snapshots
       \/ diffPrev = ExamplePrev /\ diffCurr = ExampleCurr
    /\ diffChanges = <<>>
    /\ sessionId = uuidv4
    /\ toolResult = NoResult

\* const changes = diffGraphs(prev, curr)
callDiffGraphs ==
    /\ lastEvent = "init"
    /\ diffChanges' = diffGraphs(diffPrev, diffCurr)
    /\ lastEvent' = "diffGraphs"
    /\ UNCHANGED <<nodes, edges, loading, checking, warnings, suggestions,
                   hasChanges, checkSummary, nodeAnnotations, error,
                   generateSucceededRef, checkSucceededRef, historyRef,
                   confirmedGraph, checkCountRef, isCopilotLoading,
                   prevCopilotLoadingRef, sends, cycle, clock, edits, calls>>
    /\ UNCHANGED <<flagVars, diffPrev, diffCurr, sessionId, toolResult>>

DiffNext == callDiffGraphs

DiffSpec == DiffInit /\ [][DiffNext]_vars

(* ============================== claims ================================ *)

\* a step of one of the structural edit handlers
StructuralEditStep ==
    /\ edits' = edits + 1
    /\ lastEvent' \in {"addNode", "deleteNode", "deleteEdge", "connect",
                       "keyDeleteNode", "keyDeleteEdge"}

\* FlagInit is a state the orchestrator reaches (checked as a witness of Spec)
FlagInitReached ==
    /\ checking /\ isCopilotLoading /\ ~loading /\ hasChanges
    /\ lastEvent = "busy" /\ cycle = 2 /\ clock = 1 /\ edits = 1 /\ calls = 1
    /\ nodeAnnotations = EmptyMap /\ Len(historyRef) = 2

\* C1: from a state with a baseline, the live graph equal to it and
\* hasChanges false, every single structural edit (add node, delete node,
\* add edge, delete edge) leaves hasChanges true.
C1_StructuralEditSetsHasChanges ==
    [][(/\ confirmedGraph # <<>>
        /\ snapshotFromFlow(nodes, edges) = confirmedGraph[1]
        /\ ~hasChanges
        /\ StructuralEditStep) => hasChanges']_vars

\* C2: a position-only move (drag) never changes the value of hasChanges.
C2_DragKeepsHasChanges ==
    [][(edits' = edits + 1 /\ lastEvent' = "drag") => hasChanges' = hasChanges]_vars

PendingChecks == {s \in sends : s.kind = "check"}

\* C3: a check is initiated only when hasChanges is true and no check is in
\* flight, and at most one check is in flight in every reachable state.
C3_AtMostOneCheckInFlight ==
    /\ [][checkCountRef' # checkCountRef => (hasChanges /\ ~checking /\ PendingChecks = {})]_vars
    /\ [](Cardinality(PendingChecks) <= 1)

\* C3 witness: a check has just been initiated and its send is pending
C3_Witness ==
    lastEvent = "check" /\ checking /\ Cardinality(PendingChecks) = 1

\* C4: the send of a check carries the snapshot of the live graph at the
\* moment the check is initiated, and when the send returns the baseline
\* becomes exactly that snapshot, whatever the live graph is by then.
C4_BaselineIsCheckStartSnapshot ==
    /\ [][(cycle' = cycle + 1 /\ lastEvent' = "check")
          => \E s \in sends' \ sends :
                s.kind = "check" /\ s.current = snapshotFromFlow(nodes, edges)]_vars
    /\ [][(sends' # sends /\ lastEvent' = "checkResolved")
          => \E s \in sends \ sends' : confirmedGraph' = <<s.current>>]_vars

\* C4 witness: a check has completed after an edit made while it was in
\* flight; the baseline is not the snapshot of the graph at completion
C4_Witness ==
    /\ lastEvent = "checkResolved"
    /\ confirmedGraph # <<>>
    /\ confirmedGraph[1] # snapshotFromFlow(nodes, edges)

\* C5: when the send of a check returns although a generate was initiated
\* after it (the check belongs to an abandoned cycle), the live graph, the
\* baseline, the annotation map and hasChanges are left as they are.
C5_StaleCheckCompletionIgnored ==
    [][\A s \in sends \ sends' :
          (/\ s.kind = "check"
           /\ \E g \in sends : g.kind = "generate" /\ g.cycle > s.cycle)
          => UNCHANGED <<nodes, edges, confirmedGraph, nodeAnnotations, hasChanges>>]_vars

\* data.nodeStyle the annotation map asks for
StyleFor(ann, id) ==
    IF id \in DOMAIN ann
    THEN (IF ann[id].status = "error" THEN "error"
          ELSE IF ann[id].status = "warning" THEN "warning" ELSE "ok")
    ELSE "default"

\* C6: every live node's stored style is the style of its resolved status in
\* the annotation map, or the default style when the map has no entry for it.
C6_StyleMatchesAnnotation ==
    \A i \in 1..Len(nodes) : nodes[i].nodeStyle = StyleFor(nodeAnnotations, nodes[i].id)

\* C7: initiating a check empties the annotation map, the insight lists and
\* the summary and resets every node style; afterwards a node shows a flagged
\* style only if a flagNode call of the current cycle (an entry of the map,
\* which holds the current cycle's calls only) has set it.
C7_NoStaleStyleAfterCheckStart ==
    /\ [][(cycle' = cycle + 1 /\ lastEvent' = "check")
          => /\ nodeAnnotations' = EmptyMap
             /\ warnings' = <<>> /\ suggestions' = <<>> /\ checkSummary' = ""
             /\ \A i \in 1..Len(nodes') : nodes'[i].nodeStyle = "default"]_vars
    /\ [](checkCountRef > 0
          => \A i \in 1..Len(nodes) :
                nodes[i].nodeStyle # "default" => nodes[i].id \in DOMAIN nodeAnnotations)

\* the check trigger can be invoked and will start a check
CheckCanStart ==
    /\ hasChanges /\ ~checking
    /\ confirmedGraph # <<>>
    /\ Len(diffGraphs(confirmedGraph[1], snapshotFromFlow(nodes, edges))) > 0

\* C8: after a failure surfaced as an error message the same trigger can be
\* invoked again: generate is enabled after a failed generate, and check is
\* enabled after a failed check without a further edit.
C8_RetryAfterFailure ==
    /\ [][(sends' # sends /\ lastEvent' = "generateRaised") => ~loading']_vars
    /\ [][(isCopilotLoading /\ lastEvent' = "idle" /\ loading /\ ~generateSucceededRef)
          => ~loading']_vars
    /\ [][\A s \in sends \ sends' :
            (/\ lastEvent' = "checkRaised"
             /\ s.current = snapshotFromFlow(nodes, edges)
             /\ confirmedGraph # <<>>) => CheckCanStart']_vars
    /\ [][(isCopilotLoading /\ lastEvent' = "idle" /\ checking /\ ~checkSucceededRef)
          => (error' # None /\ CheckCanStart')]_vars

\* the flagNode calls for node n among the first k scripted calls
RECURSIVE CallsFor(_, _, _)
CallsFor(sc, k, n) ==
    IF k = 0 THEN <<>>
    ELSE CallsFor(sc, k - 1, n) \o (IF sc[k].nodeId = n THEN <<sc[k]>> ELSE <<>>)

\* the highest severity among the calls cs: error > warning > ok
Highest(cs) ==
    IF \E i \in 1..Len(cs) : cs[i].status = "error" THEN "error"
    ELSE IF \E i \in 1..Len(cs) : cs[i].status = "warning" THEN "warning"
    ELSE "ok"

\* C9: within one check cycle, after any sequence of flagNode calls, a node's
\* resolved status is the highest severity among its calls so far and its
\* reason list holds the reason of every one of its calls, in arrival order.
C9_HighestSeverityAllReasons ==
    \A n \in AgentNodeIds :
        LET cs == CallsFor(script, arrived, n)
        IN  IF cs = <<>> THEN n \notin DOMAIN nodeAnnotations
            ELSE /\ n \in DOMAIN nodeAnnotations
                 /\ nodeAnnotations[n].status = Highest(cs)
                 /\ nodeAnnotations[n].reasons = [i \in 1..Len(cs) |-> cs[i].reason]

\* C9 witness: (warning, r1), (error, r2), (ok, r3) on one node have arrived
C9_Witness ==
    /\ arrived = 3
    /\ script = <<[nodeId |-> "a", status |-> "warning", reason |-> "r1"],
                  [nodeId |-> "a", status |-> "error", reason |-> "r2"],
                  [nodeId |-> "a", status |-> "ok", reason |-> "r3"]>>
    /\ nodeAnnotations["a"] = [status |-> "error", reasons |-> <<"r1", "r2", "r3">>]

\* the status the handler resolves when the calls cs arrive in this order
RECURSIVE ResolveInOrder(_, _)
ResolveInOrder(cs, ann) ==
    IF cs = <<>> THEN ann
    ELSE ResolveInOrder(Tail(cs),
                        FlagAnnotations(ann, Head(cs).nodeId, Head(cs).status,
                                        Head(cs).reason))

\* C10: once all calls of the cycle have arrived, the status resolved for a
\* node is the one every other arrival order of the same calls resolves, and
\* it is the maximum severity of the calls.
C10_SeverityCommutative ==
    arrived = Len(script)
    => \A n \in AgentNodeIds :
          LET cs == CallsFor(script, arrived, n)
          IN  cs # <<>>
              => /\ nodeAnnotations[n].status = Highest(cs)
                 /\ \A p \in Permutations(1..Len(cs)) :
                       ResolveInOrder([i \in 1..Len(cs) |-> cs[p[i]]], EmptyMap)[n].status
                          = nodeAnnotations[n].status

\* C10 witness: three calls of three different severities on one node have
\* arrived, the highest one first
C10_Witness ==
    /\ arrived = 3 /\ Len(script) = 3
    /\ \A i \in 1..3 : script[i].nodeId = "a"
    /\ script[1].status = "error" /\ script[2].status = "ok"
    /\ script[3].status = "warning"
    /\ nodeAnnotations["a"].status = "error"

\* C11: when the send of a check returns and the live graph is still the one
\* the check was initiated on, hasChanges is false and the live snapshot
\* equals the baseline; from a state with hasChanges false and the live
\* snapshot equal to the baseline, a step that leaves the live snapshot as it
\* is leaves hasChanges false.
C11_CleanAfterSuccessfulCheck ==
    /\ [][\A s \in sends \ sends' :
            (/\ lastEvent' = "checkResolved"
             /\ s.current = snapshotFromFlow(nodes, edges))
            => /\ ~hasChanges'
               /\ confirmedGraph' = <<snapshotFromFlow(nodes', edges')>>]_vars
    /\ [][(/\ ~hasChanges
           /\ confirmedGraph = <<snapshotFromFlow(nodes, edges)>>
           /\ snapshotFromFlow(nodes', edges') = snapshotFromFlow(nodes, edges))
          => ~hasChanges']_vars

\* C11 witness: a check has completed on an unedited graph, with a flag applied
C11_Witness ==
    /\ lastEvent = "checkResolved"
    /\ ~hasChanges
    /\ confirmedGraph = <<snapshotFromFlow(nodes, edges)>>
    /\ nodeAnnotations # EmptyMap

\* C12: while the most recently initiated check is pending the baseline is
\* not written by any step other than the return of its send; when the send
\* raises, the baseline is left as it is, checking becomes false, an error
\* message is set, and hasChanges is true whenever the live graph still
\* differs from the baseline.
C12_RaisedCheckKeepsBaseline ==
    /\ [][((\E s \in sends : s.kind = "check" /\ s.cycle = cycle)
           /\ cycle' = cycle /\ lastEvent' # "checkResolved")
          => confirmedGraph' = confirmedGraph]_vars
    /\ [][\A s \in sends \ sends' :
            lastEvent' = "checkRaised"
            => /\ confirmedGraph' = confirmedGraph
               /\ ~checking'
               /\ error' # None
               /\ (/\ confirmedGraph # <<>>
                   /\ Len(diffGraphs(confirmedGraph[1],
                                     snapshotFromFlow(nodes', edges'))) > 0)
                  => hasChanges']_vars

C13_SuccessReached ==
    /\ lastEvent = "idle" /\ ~checking /\ checkSucceededRef /\ error = None
    /\ checkSummary # ""

\* C14: the step in which a createGraph response is received makes the live
\* graph the laid-out result, the baseline its snapshot and hasChanges false,
\* and leaves the annotation map and both insight lists empty.
C14_CreateGraphResetsState ==
    [][(~generateSucceededRef /\ generateSucceededRef')
       => /\ \E raw \in RawGraphs :
                /\ nodes' = applyDagreLayout(FlowNodes(raw))
                /\ edges' = FlowEdges(raw)
          /\ confirmedGraph' = <<snapshotFromFlow(nodes', edges')>>
          /\ ~hasChanges'
          /\ warnings' = <<>> /\ suggestions' = <<>>
          /\ nodeAnnotations' = EmptyMap]_vars

\* the maximum number of history entries
HistoryCap == HistoryKeep + 1

\* C17: the history never holds more than 30 entries, and a push onto a full
\* history of 30 keeps its 29 most recent entries, in order, followed by the
\* graph as it was before the step.
C17_HistoryBounded ==
    /\ [](Len(historyRef) <= HistoryCap)
    /\ [][(Len(historyRef) = HistoryCap /\ historyRef' # historyRef
           /\ Len(historyRef') >= Len(historyRef))
          => historyRef' = SubSeq(historyRef, 2, HistoryCap)
                           \o <<[nodes |-> nodes, edges |-> edges]>>]_vars

\* C17 witness: a push onto a full history has dropped the oldest entry (the
\* empty graph before generation) and kept the second oldest as the first
C17_Witness ==
    /\ Len(historyRef) = HistoryCap
    /\ lastEvent \in {"addNode", "deleteNode", "connect", "drag", "createGraph"}
    /\ historyRef[1] = [nodes |-> SessionLaid, edges |-> <<>>]

\* a step in which handleUndo popped an entry
UndoStep == lastEvent' = "undo" /\ historyRef' # historyRef

\* C15: an undo on a non-empty history makes the live nodes and edges exactly
\* those of the most recently pushed entry (ids, labels, positions, styles)
\* and removes that entry; an undo on an empty history changes nothing.
C15_UndoRestoresLastEntry ==
    /\ [][UndoStep
          => /\ Len(historyRef) > 0
             /\ nodes' = historyRef[Len(historyRef)].nodes
             /\ edges' = historyRef[Len(historyRef)].edges
             /\ historyRef' = SubSeq(historyRef, 1, Len(historyRef) - 1)]_vars
    /\ [][(Len(historyRef) = 0 /\ handleUndo) => UNCHANGED vars]_vars

\* C15 witness: an undo has restored a graph that differs from the one it
\* replaced in a position or a style only, and entries are left
C15_Witness ==
    /\ lastEvent = "undo"
    /\ Len(historyRef) > 1
    /\ Len(nodes) > 0
    /\ confirmedGraph = <<snapshotFromFlow(nodes, edges)>>

\* C16: every step of a user edit (drag, add node, delete node, delete edge,
\* connect) pushes onto the history the graph as it was before the step.
C16_EditPushesHistory ==
    [][(edits' = edits + 1)
       => /\ historyRef' # <<>>
          /\ historyRef'[Len(historyRef')] = [nodes |-> nodes, edges |-> edges]
          /\ Len(historyRef') = Len(historyRef) + 1]_vars

\* C18: an undo leaves the baseline, the annotation map, the insight lists,
\* the summary, the check counter, the checking and loading flags, the error
\* and the agent interaction unchanged.
C18_UndoFrame ==
    [][UndoStep
       => UNCHANGED <<confirmedGraph, nodeAnnotations, warnings, suggestions,
                      checkSummary, checkCountRef, checking, loading, error,
                      generateSucceededRef, checkSucceededRef, isCopilotLoading,
                      prevCopilotLoadingRef, sends>>]_vars

\* C18 witness: an undo made during a check, with a flag in the map
C18_Witness ==
    /\ lastEvent = "undo" /\ checking /\ nodeAnnotations # EmptyMap
    /\ confirmedGraph # <<>>

\* C19: an undo made while hasChanges is true that makes the snapshot of the
\* live graph equal to the baseline leaves hasChanges false.
C19_UndoBackToBaseline ==
    [][(UndoStep /\ hasChanges /\ confirmedGraph # <<>>
        /\ snapshotFromFlow(nodes', edges') = confirmedGraph[1])
       => ~hasChanges']_vars

\* C20: for every snapshot A (unique node ids, any edge list, the empty graph
\* included), diffGraphs(A, A) is the empty list.
C20_DiffSelfEmpty ==
    (lastEvent = "diffGraphs" /\ diffPrev = diffCurr) => diffChanges = <<>>

\* C20 witness: diffGraphs has run on twice the same snapshot, one with a
\* single node, two edges and an edge whose target is no node
C20_Witness ==
    /\ lastEvent = "diffGraphs"
    /\ diffPrev = diffCurr
    /\ Len(diffPrev.nodes) = 1 /\ Len(diffPrev.edges) = 2
    /\ \E i \in 1..2 : diffPrev.edges[i].target \notin NodeIdSet(diffPrev)
    /\ diffChanges = <<>>

\* C21 as stated: diffGraphs(A, B) is empty if and only if A and B have the
\* same set of node ids.
C21_EmptyIffSameNodeIds ==
    lastEvent = "diffGraphs"
    => ((diffChanges = <<>>) <=> (NodeIdSet(diffPrev) = NodeIdSet(diffCurr)))

\* C21 amended: an empty diff implies the same set of node ids, and two
\* snapshots with the same set of node ids and the same set of edge keys have
\* an empty diff whatever their labels are.
C21_EmptyWithSameIdsAndEdges ==
    lastEvent = "diffGraphs"
    => /\ (diffChanges = <<>>) => (NodeIdSet(diffPrev) = NodeIdSet(diffCurr))
       /\ (NodeIdSet(diffPrev) = NodeIdSet(diffCurr)
           /\ EdgeKeys(diffPrev) = EdgeKeys(diffCurr)) => (diffChanges = <<>>)

\* C21 witness: the diff of two snapshots with the same node ids, the same
\* edges and different labels is empty
C21_Witness ==
    /\ lastEvent = "diffGraphs"
    /\ Len(diffPrev.nodes) = 2 /\ Len(diffCurr.nodes) = 2
    /\ \A i \in 1..2 : /\ diffPrev.nodes[i].id = diffCurr.nodes[i].id
                       /\ diffPrev.nodes[i].label # diffCurr.nodes[i].label
    /\ diffPrev.edges = diffCurr.edges /\ diffPrev.edges # <<>>
    /\ diffChanges = <<>>

\* the label a snapshot gives an id, or the id itself when it has no such node
LabelIn(g, id) ==
    IF \E i \in 1..Len(g.nodes) : g.nodes[i].id = id
    THEN g.nodes[CHOOSE i \in 1..Len(g.nodes) : g.nodes[i].id = id].label
    ELSE id

\* the node entries expected of kind k: the nodes of g whose id is no node id
\* of h, in g's order, with g's label
ExpectedNodeEntries(g, h, k) ==
    LET kept == SelectSeq(g.nodes,
                          LAMBDA n : \A j \in 1..Len(h.nodes) : h.nodes[j].id # n.id)
    IN  [i \in 1..Len(kept) |-> [kind |-> k, label |-> kept[i].label]]

\* the edge entries expected of kind k: the edges of g that h has no edge
\* with the same source and target for, in g's order, with g's labels
ExpectedEdgeEntries(g, h, k) ==
    LET kept == SelectSeq(g.edges,
                          LAMBDA e : \A j \in 1..Len(h.edges) :
                                        ~(h.edges[j].source = e.source
                                          /\ h.edges[j].target = e.target))
    IN  [i \in 1..Len(kept) |->
            [kind |-> k, src |-> LabelIn(g, kept[i].source),
             tgt |-> LabelIn(g, kept[i].target)]]

\* C22: diffGraphs(prev, curr) is exactly the deleted-node entries (prev's
\* order and labels), then the added-node entries (curr's order and labels),
\* then the removed-dependency entries (prev's labels, raw id for a missing
\* node), then the added-dependency entries (curr's labels).
C22_DiffExactList ==
    lastEvent = "diffGraphs"
    => diffChanges = ExpectedNodeEntries(diffPrev, diffCurr, "Deleted node")
                     \o ExpectedNodeEntries(diffCurr, diffPrev, "Added node")
                     \o ExpectedEdgeEntries(diffPrev, diffCurr, "Removed dependency")
                     \o ExpectedEdgeEntries(diffCurr, diffPrev, "Added dependency")

\* C22 witness: the example of two steps A -> B extended with C and B -> C
C22_Witness ==
    /\ lastEvent = "diffGraphs"
    /\ diffPrev = ExamplePrev /\ diffCurr = ExampleCurr
    /\ diffChanges = <<[kind |-> "Added node", label |-> "C"],
                       [kind |-> "Added dependency", src |-> "B", tgt |-> "C"]>>

WellFormed(g) ==
    /\ \A i, j \in 1..Len(g.nodes) : g.nodes[i].id = g.nodes[j].id => i = j
    /\ \A k \in 1..Len(g.edges) :
           {g.edges[k].source, g.edges[k].target} \subseteq NodeIdSet(g)

\* C24: every confirmed baseline is well formed (unique node ids, no edge
\* naming a node outside the snapshot) after any sequence of generate, add
\* node, delete node, connect, delete edge, undo and check
C24_BaselineWellFormed ==
    confirmedGraph # <<>> => WellFormed(confirmedGraph[1])

\* a check has confirmed a graph from which a connected node was deleted: the
\* baseline holds one node and no edge, the history still holds the edge
C24_Witness ==
    /\ lastEvent = "checkResolved"
    /\ confirmedGraph # <<>>
    /\ Len(confirmedGraph[1].nodes) = 1
    /\ Len(confirmedGraph[1].edges) = 0
    /\ \E i \in 1..Len(historyRef) : Len(historyRef[i].edges) > 0

\* a step that issues the appendMessage of a generate
GenerateStarts == \E s \in sends' \ sends : s.kind = "generate"

\* a step that starts a check
CheckStarts ==
    \/ \E s \in sends' \ sends : s.kind = "check"
    \/ checkCountRef' # checkCountRef
    \/ ~checking /\ checking'

\* C25: initiating generate with plan text empties the live graph, sets the
\* baseline to none and enters the generating state; while the baseline is
\* none no step starts a check (the request is refused)
C25_GenerateClearsAndCheckRefused ==
    /\ [][GenerateStarts
          => /\ nodes' = <<>> /\ edges' = <<>>
             /\ confirmedGraph' = <<>>
             /\ loading']_vars
    /\ [][confirmedGraph = <<>> => ~CheckStarts]_vars

\* a generate has just cleared an edited graph: no baseline, the check button
\* still enabled by the hasChanges left over from the edit
C25_Witness ==
    /\ lastEvent = "generate"
    /\ loading
    /\ nodes = <<>> /\ edges = <<>>
    /\ confirmedGraph = <<>>
    /\ CheckButtonEnabled
    /\ Len(historyRef) > 0

\* C26: whenever a confirmed baseline exists and neither a generate nor a
\* check is in flight, hasChanges is true exactly when
\* diffGraphs(baseline, snapshot(live graph)) is non-empty
C26_HasChangesIffDiff ==
    (confirmedGraph # <<>> /\ ~loading /\ ~checking)
    => (hasChanges <=> Len(diffGraphs(confirmedGraph[1],
                                      snapshotFromFlow(nodes, edges))) > 0)

(* ------------- Spec with the agent's runs coming to an end ------------ *)

\* generate, check, the agent, and the edits that enable a check (add,
\* delete, undo)
LiveNext ==
    \/ \E plan \in PlanTexts : handleGenerate(plan)
    \/ handleCheckChanges
    \/ handleAddNode("N")
    \/ \E n \in NodeIds(nodes) : handleDeleteNode(n)
    \/ handleUndo
    \/ copilotBusy
    \/ sendSettles
    \/ copilotIdle
    \/ \E raw \in RawGraphs : createGraph(raw)
    \/ \E st \in Statuses : flagNode("a", st, "r1")
    \/ \E type \in {"warning", "suggestion"} : addInsight(type, "m")
    \/ summarizeCheck("s")

\* the scheduling of the agent runtime: an issued send turns the indicator
\* busy, every outstanding send settles, and the indicator returns to idle
\* once nothing is outstanding
LiveSpec ==
    /\ Init
    /\ [][LiveNext]_vars
    /\ WF_vars(copilotBusy)
    /\ WF_vars(sendSettles)
    /\ WF_vars(copilotIdle)

\* C27: every initiated generate or check eventually leaves its in-flight
\* state (loading, respectively checking, becomes false), provided each send
\* raises or the busy indicator eventually returns to idle
C27_InFlightEnds ==
    /\ loading ~> ~loading
    /\ checking ~> ~checking

\* a check that was initiated has been ended by the indicator going idle
C27_Witness ==
    /\ lastEvent = "idle"
    /\ checkCountRef > 0
    /\ ~checking /\ ~loading
    /\ sends = {}

\* C28: when the send of a check returns without raising, the baseline becomes
\* the check-start snapshot and hasChanges false whether or not summarizeCheck
\* was called; the completion-detection effect that then reports the cycle as
\* failed for want of a summary leaves the advanced baseline in place
C28_BaselineAdvancesWithoutSummary ==
    /\ [][\A s \in sends \ sends' :
            lastEvent' = "checkResolved"
            => /\ confirmedGraph' = <<s.current>>
               /\ ~hasChanges'
               /\ checkSucceededRef' = checkSucceededRef]_vars
    /\ [][(isCopilotLoading /\ ~isCopilotLoading' /\ checking /\ ~checkSucceededRef)
          => /\ error' # None
             /\ ~checking'
             /\ confirmedGraph' = confirmedGraph]_vars

\* a check of a graph with an added node was reported as failed (no summary),
\* and the baseline is the snapshot with the added node
C28_Witness ==
    /\ lastEvent = "idle"
    /\ ~checking
    /\ ~checkSucceededRef
    /\ checkCountRef > 0
    /\ error = friendlyError("")
    /\ confirmedGraph # <<>>
    /\ NewNodeId(1) \in NodeIdSet(confirmedGraph[1])
    /\ ~hasChanges

\* C29: the confirmed baseline is modified only by the initiation of a
\* generate (set to none), the application of a createGraph response (set to
\* the snapshot of the result) and the non-raising return of a check's send
\* (set to the check-start snapshot); user edits, undo, flagNode, addInsight,
\* summarizeCheck and the completion-detection effect leave it unchanged
C29_BaselineWriters ==
    [][confirmedGraph' # confirmedGraph
       => \/ GenerateStarts /\ confirmedGraph' = <<>>
          \/ /\ calls' = calls + 1 /\ lastEvent' = "createGraph"
             /\ confirmedGraph' = <<snapshotFromFlow(nodes', edges')>>
          \/ \E s \in sends \ sends' :
                /\ s.kind = "check" /\ lastEvent' = "checkResolved"
                /\ confirmedGraph' = <<s.current>>]_vars

\* summarizeCheck has run on a graph edited after its baseline was written,
\* and the baseline is still the older snapshot
C29_Witness ==
    /\ lastEvent = "summarizeCheck"
    /\ checkSucceededRef
    /\ confirmedGraph # <<>>
    /\ confirmedGraph[1] # snapshotFromFlow(nodes, edges)
    /\ Len(historyRef) > 1

\* the ids of a snapshot's nodes and the (source, target) pairs of its edges
IdsOf(g) == {n.id : n \in Range(g.nodes)}
KeysOf(g) == {<<e.source, e.target>> : e \in Range(g.edges)}

\* C30: for snapshots with unique node ids, diffGraphs(A, B) is empty exactly
\* when the node-id sets are equal and the sets of (source, target) edge keys
\* are equal; labels, array order and the number of parallel edges do not
\* matter, so a second edge between an already connected pair yields no entry
C30_EmptyIffSameIdsAndKeys ==
    lastEvent = "diffGraphs"
    => /\ (diffChanges = <<>>)
          <=> (IdsOf(diffPrev) = IdsOf(diffCurr) /\ KeysOf(diffPrev) = KeysOf(diffCurr))
       /\ (/\ diffPrev.nodes = diffCurr.nodes
           /\ \E i \in 1..Len(diffPrev.edges) :
                 \/ diffCurr.edges = Append(diffPrev.edges, diffPrev.edges[i])
                 \/ diffPrev.edges = Append(diffCurr.edges, diffPrev.edges[i])
                    /\ diffPrev.edges[i] \in Range(diffCurr.edges))
          => diffChanges = <<>>

\* the same two nodes in the other order with other labels, and a second edge
\* between the connected pair: the diff is empty
C30_Witness ==
    /\ lastEvent = "diffGraphs"
    /\ Len(diffPrev.nodes) = 2 /\ Len(diffCurr.nodes) = 2
    /\ diffPrev.nodes[1].id = diffCurr.nodes[2].id
    /\ diffPrev.nodes[1].label # diffCurr.nodes[2].label
    /\ Len(diffPrev.edges) = 1
    /\ diffCurr.edges = diffPrev.edges \o diffPrev.edges
    /\ diffChanges = <<>>

\* C31: while the live graph has zero nodes hasChanges is not recomputed: an
\* edit or an undo that leaves the live graph with no nodes leaves hasChanges
\* at the value it had, whatever the confirmed baseline is
C31_NoRecomputeOnEmptyGraph ==
    [][((edits' = edits + 1 \/ UndoStep) /\ Len(nodes') = 0)
       => hasChanges' = hasChanges]_vars

\* the only node of a confirmed graph was deleted: the live graph is empty,
\* differs from the baseline, and hasChanges is still false
C31_Witness ==
    /\ lastEvent \in {"deleteNode", "keyDeleteNode"}
    /\ nodes = <<>>
    /\ confirmedGraph # <<>>
    /\ Len(confirmedGraph[1].nodes) > 0
    /\ ~hasChanges

\* C32: a createGraph response pushes one history entry holding the graph as
\* it was before the response; below the cap no step other than an undo
\* shortens the history (generate and check never do); an undo right after a
\* generation puts the pre-generation graph back while the baseline stays the
\* generated snapshot
C32_GenerationIsUndoable ==
    /\ [][(calls' = calls + 1 /\ lastEvent' = "createGraph"
           /\ Len(historyRef) <= HistoryKeep)
          => historyRef' = Append(historyRef, [nodes |-> nodes, edges |-> edges])]_vars
    /\ [][Len(historyRef') < Len(historyRef) => UndoStep]_vars
    /\ [][(GenerateStarts \/ CheckStarts) => historyRef' = historyRef]_vars
    /\ [][(lastEvent = "createGraph" /\ UndoStep)
          => /\ nodes' = Last(historyRef).nodes
             /\ edges' = Last(historyRef).edges
             /\ confirmedGraph' = <<snapshotFromFlow(nodes, edges)>>]_vars

\* the first action after a generation was an undo: the live graph is the
\* empty pre-generation graph, the baseline is the generated graph
C32_Witness ==
    /\ lastEvent = "undo"
    /\ generateSucceededRef
    /\ edits = 0
    /\ nodes = <<>>
    /\ historyRef = <<>>
    /\ confirmedGraph # <<>>
    /\ Len(confirmedGraph[1].nodes) > 0

\* the entries of kind k of a change list, under the kind name k2
EntriesAs(changes, k, k2) ==
    LET sel == SelectSeq(changes, LAMBDA c : c.kind = k)
    IN  [i \in 1..Len(sel) |-> [sel[i] EXCEPT !.kind = k2]]

\* C33: for snapshots with unique node ids, diffGraphs(A, B) and
\* diffGraphs(B, A) have the same length: the nodes one reports deleted are
\* the nodes the other reports added, and the edges one reports removed are
\* the edges the other reports added
C33_DiffMirror ==
    lastEvent = "diffGraphs"
    => LET back == diffGraphs(diffCurr, diffPrev)
       IN  /\ Len(diffChanges) = Len(back)
           /\ EntriesAs(diffChanges, "Deleted node", "Added node")
                 = EntriesAs(back, "Added node", "Added node")
           /\ EntriesAs(diffChanges, "Added node", "Deleted node")
                 = EntriesAs(back, "Deleted node", "Deleted node")
           /\ EntriesAs(diffChanges, "Removed dependency", "Added dependency")
                 = EntriesAs(back, "Added dependency", "Added dependency")
           /\ EntriesAs(diffChanges, "Added dependency", "Removed dependency")
                 = EntriesAs(back, "Removed dependency", "Removed dependency")

\* a diff with a deleted node, an added node, a removed edge and an added edge
C33_Witness ==
    /\ lastEvent = "diffGraphs"
    /\ Len(diffChanges) = 4
    /\ {diffChanges[i].kind : i \in 1..4}
          = {"Deleted node", "Added node", "Removed dependency", "Added dependency"}
    /\ Len(diffGraphs(diffCurr, diffPrev)) = 4

\* C34: handleUndo changes the live graph only when the orchestrator is
\* neither generating nor checking and the history is non-empty; while a
\* generate or a check is in flight an undo request leaves the live graph as
\* it is
C34_UndoOnlyWhenIdle ==
    [][(UndoStep /\ <<nodes, edges>>' # <<nodes, edges>>)
       => (~loading /\ ~checking /\ Len(historyRef) > 0)]_vars

\* C35: refused triggers change no state: a generate request with empty plan
\* text, and a check request whose diff against the baseline is empty, have
\* no step that changes any variable (graph, baseline, annotation map, insight
\* lists, summary, error, check counter, loading/checking, sends)
C35_RefusedTriggersChangeNothing ==
    /\ ~ENABLED <<handleGenerate("")>>_vars
    /\ (\/ confirmedGraph = <<>>
        \/ Len(diffGraphs(confirmedGraph[1], snapshotFromFlow(nodes, edges))) = 0)
       => ~ENABLED <<handleCheckChanges>>_vars

\* the check button is enabled (hasChanges is stale) although the live graph
\* equals the baseline: a check request that is refused
C35_Witness ==
    /\ CheckButtonEnabled
    /\ confirmedGraph # <<>>
    /\ Len(diffGraphs(confirmedGraph[1], snapshotFromFlow(nodes, edges))) = 0
    /\ cycle < MaxCycles

\* C36: flagNode(n, status, reason) changes only the annotation entry of n
\* and the style of node n: every other entry and every other node is as
\* before, and when n is no live node the call is accepted without error,
\* records the annotation under n and changes no node
C36_FlagNodeFrame ==
    [][arrived' = arrived + 1
       => LET n == script[arrived + 1].nodeId
          IN  /\ DOMAIN nodeAnnotations' = DOMAIN nodeAnnotations \cup {n}
              /\ \A x \in DOMAIN nodeAnnotations \ {n} :
                    nodeAnnotations'[x] = nodeAnnotations[x]
              /\ Len(nodes') = Len(nodes)
              /\ \A i \in 1..Len(nodes) :
                    IF nodes[i].id = n
                    THEN [nodes'[i] EXCEPT !.nodeStyle = nodes[i].nodeStyle] = nodes[i]
                    ELSE nodes'[i] = nodes[i]
              /\ n \notin NodeIds(nodes) => nodes' = nodes
              /\ error' = error
              /\ edges' = edges]_vars

\* node a was flagged, then the unknown id b: both have an entry, node a has
\* the style of its status and the added node still has the default style
C36_Witness ==
    /\ arrived = 2
    /\ script[1].nodeId = "a" /\ script[1].status = "error"
    /\ script[2].nodeId = "b"
    /\ "b" \notin NodeIds(nodes)
    /\ DOMAIN nodeAnnotations = {"a", "b"}
    /\ \A i \in 1..Len(nodes) :
          nodes[i].nodeStyle = (IF nodes[i].id = "a" THEN nodeStyleError ELSE nodeStyle)
    /\ error = None

\* the edge e with its direction reversed
Reversed(e) == [source |-> e.target, target |-> e.source]

\* C37: edge identity in the diff is the ordered pair (source, target):
\* replacing an edge A->B by B->A, with the node set unchanged, yields exactly
\* one Removed dependency entry for A->B followed by one Added dependency
\* entry for B->A
C37_DirectionSensitive ==
    (/\ lastEvent = "diffGraphs"
     /\ IdsOf(diffPrev) = IdsOf(diffCurr)
     /\ Len(diffPrev.edges) = Len(diffCurr.edges))
    => \A i \in 1..Len(diffPrev.edges) :
          LET e == diffPrev.edges[i]
          IN  (/\ e.source # e.target
               /\ diffCurr.edges = [diffPrev.edges EXCEPT ![i] = Reversed(e)]
               /\ \A j \in 1..Len(diffPrev.edges) :
                     j # i => diffPrev.edges[j] \notin {e, Reversed(e)})
              => diffChanges
                    = <<[kind |-> "Removed dependency",
                         src |-> LabelIn(diffPrev, e.source),
                         tgt |-> LabelIn(diffPrev, e.target)],
                        [kind |-> "Added dependency",
                         src |-> LabelIn(diffCurr, e.target),
                         tgt |-> LabelIn(diffCurr, e.source)]>>

\* nodes A and B with the edge A->B, and the same nodes with the edge B->A
C37_Witness ==
    /\ lastEvent = "diffGraphs"
    /\ diffPrev = [nodes |-> <<[id |-> "a", label |-> "A"], [id |-> "b", label |-> "B"]>>,
                   edges |-> <<[source |-> "a", target |-> "b"]>>]
    /\ diffCurr = [nodes |-> <<[id |-> "a", label |-> "A"], [id |-> "b", label |-> "B"]>>,
                   edges |-> <<[source |-> "b", target |-> "a"]>>]
    /\ diffChanges = <<[kind |-> "Removed dependency", src |-> "A", tgt |-> "B"],
                       [kind |-> "Added dependency", src |-> "B", tgt |-> "A"]>>

\* C38: the check counter never decreases; it increases by exactly one in
\* each step that initiates a check (whether the check later fails or not)
\* and is left alone by every other step; the session identifier has the same
\* value in every state
C38_CounterAndSessionId ==
    /\ [][checkCountRef' = checkCountRef
                           + (IF \E s \in sends' \ sends : s.kind = "check"
                              THEN 1 ELSE 0)]_vars
    /\ [][sessionId' = sessionId]_vars
    /\ [](sessionId = uuidv4)

\* a second check has been initiated in the session
C38_Witness ==
    /\ lastEvent = "check"
    /\ checkCountRef = 2
    /\ Cardinality(PendingChecks) = 1
    /\ sessionId = uuidv4

(* ---------------- a check in which the agent uses memory --------------- *)

\* generate, one edit, the check, and the agent's calls during the check
MemoryNext ==
    \/ handleGenerate("plan")
    \/ handleCheckChanges
    \/ handleAddNode("N")
    \/ copilotBusy
    \/ sendSettles
    \/ copilotIdle
    \/ \E raw \in RawGraphs : createGraph(raw)
    \/ \E st \in Statuses : flagNode("a", st, "r1")
    \/ summarizeCheck("s")
    \/ \E o \in MemoryOutcomes : storeMemory("Session 1 Check 1", o)
    \/ \E o \in MemoryOutcomes : searchMemory("session 1", o)

MemorySpec == Init /\ [][MemoryNext]_vars

\* C39: the searchMemory and storeMemory handlers always return a text and
\* never raise, whether the memory service succeeds, answers with an error or
\* is unreachable; a memory call during a check leaves checking, the
\* annotation map, the baseline and the error message as they are
C39_MemoryToolsNeverRaise ==
    /\ [][(calls' = calls + 1 /\ lastEvent' \in {"storeMemory", "searchMemory"})
          => /\ ~toolResult'.raised
             /\ toolResult'.text # ""
             /\ UNCHANGED <<checking, nodeAnnotations, confirmedGraph, error,
                            loading, nodes, edges>>]_vars
    /\ [](~toolResult.raised)

\* storeMemory has failed on an unreachable service while the send of a check
\* is outstanding: the check is still running, the baseline is the generated
\* graph, no error is shown
C39_Witness ==
    /\ lastEvent = "storeMemory"
    /\ toolResult = [raised |-> FALSE, text |-> "Failed to store memory: unreachable"]
    /\ checking
    /\ Cardinality(PendingChecks) = 1
    /\ confirmedGraph # <<>>
    /\ error = None

\* C40: applyDagreLayout returns one node per input node, in input order and
\* with the same id, at the layout's centre point minus exactly half the
\* configured node width on x and exactly half the configured node height on y
C40_LayoutCentresExactly ==
    [][(calls' = calls + 1 /\ lastEvent' = "createGraph")
       => \E raw \in RawGraphs :
             /\ Len(nodes') = Len(raw.nodes)
             /\ \A i \in 1..Len(nodes') :
                   /\ nodes'[i].id = raw.nodes[i].id
                   /\ 2 * (DagreCenter(i)[1] - nodes'[i].position[1]) = NodeWidth
                   /\ 2 * (DagreCenter(i)[2] - nodes'[i].position[2]) = NodeHeight]_vars

====
